---- MODULE Spec2Model ----
(***************************************************************************)
(* Verification model of the SIYI gimbal camera SDK.                       *)
(*                                                                         *)
(*  - SIYISTREAM (src/siyi_sdk/siyi_stream.py): the streaming pipeline, a  *)
(*    reader thread and a decoder thread sharing a deque(maxlen=5), a      *)
(*    single-slot frame cache guarded by a mutex, and the                  *)
(*    connect/disconnect/get_frame callers.            Specification Spec  *)
(*  - ZR10SDK (src/zr10_python.py): the hex-string codec (calcCRC16,       *)
(*    encodeMsg, decodeMsg) and the request/response operations built on   *)
(*    it.                                  Specifications SpecCodec, SpecCtl *)
(***************************************************************************)
EXTENDS Integers, Sequences, FiniteSets, TLC

VARIABLES
    \* ---- SIYISTREAM object state
    running,          \* self._running
    container,        \* self._container: "none" | "open" | "closed"
    packet_queue,     \* self._packet_queue: deque(maxlen=5), leftmost first
    latest_frame,     \* self._latest_frame: 0 is None, else the image
    frame_mutex,      \* self._frame_mutex holder: 0 free, -1 decoder, c caller
    reader_started,   \* self._reader_thread has been start()ed
    decoder_started,  \* self._decoder_thread has been start()ed
    \* ---- the reader thread (_reader_loop)
    r_pc, r_pkt,
    \* ---- the decoder thread (_decoder_loop)
    d_pc, d_pkt, d_img,
    \* ---- the thread calling connect() / disconnect()
    m_pc, m_ret, calls,
    \* ---- the threads calling get_frame()
    gf_pc, gf_err, gf_img,
    gf_cached,        \* history: the cache content when the call began
    \* ---- history of the run (not program state)
    produced,         \* packets the transport has yielded so far
    pushed,           \* packets appended to the deque so far
    evicted,          \* packets removed from the left end, in order
    taken,            \* packet -> number of times the decoder popped it
    first_taken,      \* the first packet the decoder popped (0: none yet)
    published,        \* images stored into the frame cache so far
    fresh,            \* a store happened since the last connect() began
    after_stop,       \* work done since disconnect() cleared _running
    \* ---- the environment of a run (never changes)
    stream_len,       \* packets the camera's stream delivers
    call_budget,      \* connect()/disconnect() calls the application makes
    \* ---- ZR10SDK: the thread calling the controller, and its socket
    ctl_pc, ctl_op, ctl_req, ctl_req_arg, ctl_arg, ctl_reply, ctl_val,
    ctl_ret, inbox, unanswered, ctl_calls,
    timed_out,        \* history: some receive has timed out
    last_speed,       \* history: the speeds of the last speed frame the
                      \* operation in progress has sent (<< >>: none)
    \* ---- ZR10SDK codec functions applied to drawn inputs
    x_pc, x_len, x_data, x_cmd, x_msg, x_out, x_crc

env == << stream_len, call_budget >>

stream_vars == << running, container, packet_queue, latest_frame, frame_mutex,
                  reader_started, decoder_started, r_pc, r_pkt,
                  d_pc, d_pkt, d_img, m_pc, m_ret, calls,
                  gf_pc, gf_err, gf_img, gf_cached, produced, pushed, evicted, taken,
                  first_taken, published, fresh, after_stop >>

ctl_vars == << ctl_pc, ctl_op, ctl_req, ctl_req_arg, ctl_arg, ctl_reply,
               ctl_val, ctl_ret, inbox, unanswered, ctl_calls, timed_out,
               last_speed >>

codec_vars == << x_pc, x_len, x_data, x_cmd, x_msg, x_out, x_crc >>

vars == << env, stream_vars, ctl_vars, codec_vars >>

\* ---- bounds of the model
QueuePackets == 7     \* stream length when the packet buffer is studied
LifePackets == 1      \* stream length when the lifecycle is studied
LifeCalls == 3        \* connect()/disconnect() calls in a lifecycle run
StopPackets == 3      \* stream length when the stop of the threads is studied
LifeCallers == 1      \* get_frame() threads in a lifecycle run
CachePackets == 2     \* stream length when the frame cache is studied
CacheCallers == 2     \* get_frame() threads when the frame cache is studied

MaxCmdId == 15        \* command ids 0..MaxCmdId of the arbitrary messages
MaxPayloadByte == 31  \* payload bytes 0..MaxPayloadByte of the arbitrary messages

CtlCalls == 2         \* operations the caller invokes on the controller
InboxCap == 1         \* datagrams waiting on the socket

Callers == DOMAIN gf_pc

\* ---- collections.deque(maxlen=5)
maxlen_six == 5 + 1

maxlen == 5

DequeLen(q) == Len(q)

\* deque.append on a bounded deque: a full deque discards its leftmost item
DequeAppend(q, x) ==
    IF Len(q) >= maxlen THEN Append(Tail(q), x) ELSE Append(q, x)

\* the item a full deque discards on append (0: none)
DequeAppendDiscard(q) == IF Len(q) >= maxlen THEN Head(q) ELSE 0

\* deque.popleft(): the value returned and the deque left behind
PopleftValue(q) == Head(q)

PopleftRest_newest(q) == SubSeq(q, 1, Len(q) - 1)

PopleftRest(q) == Tail(q)

\* deque.pop(): the value returned and the deque left behind
PopValue_oldest(q) == q[1]

PopValue(q) == q[Len(q)]

PopRest_keep(q) == q

PopRest(q) == SubSeq(q, 1, Len(q) - 1)

\* ======================================================================
\* ZR10SDK: the codec.  A hex string is a sequence of hex digits 0..15
\* ("5566" is << 5, 5, 6, 6 >>): the code slices and compares such strings.
\* ======================================================================
Min(a, b) == IF a < b THEN a ELSE b
Max(a, b) == IF a > b THEN a ELSE b

\* Python s[a:b] for 0 <= a, 0 <= b: out-of-range bounds are clipped
Slice(s, a, b) ==
    IF a >= Min(b, Len(s)) THEN << >> ELSE SubSeq(s, a + 1, Min(b, Len(s)))

\* Python s[a:]
SliceFrom(s, a) == Slice(s, a, Len(s))

\* Python s[-k:] and s[:-k] for k > 0
SliceLast(s, k) == SliceFrom(s, Max(Len(s) - k, 0))
SliceButLast(s, k) == Slice(s, 0, Max(Len(s) - k, 0))

\* Python s[-a:-b] for a > b > 0
SliceNeg(s, a, b) == Slice(s, Max(Len(s) - a, 0), Max(Len(s) - b, 0))

\* the value None, where the code returns it in place of a hex string
None == << -1 >>

\* format(n, 'x') for n >= 0: hex digits without leading zeros
RECURSIVE FormatHex(_)
FormatHex(n) == IF n < 16 THEN << n >> ELSE Append(FormatHex(n \div 16), n % 16)

\* int(s, 16) of a non-empty hex string
RECURSIVE IntOfHex(_)
IntOfHex(s) ==
    IF Len(s) = 0 THEN 0
    ELSE 16 * IntOfHex(SubSeq(s, 1, Len(s) - 1)) + s[Len(s)]

\* bytes.fromhex(msg) raises ValueError on an odd number of hex digits
FromHexFails(msg) == Len(msg) % 2 = 1

\* bytes.fromhex(msg)
BytesFromHex(msg) ==
    [i \in 1..(Len(msg) \div 2) |-> 16 * msg[2 * i - 1] + msg[2 * i]]

\* bytes.hex()
RECURSIVE HexOfBytes(_)
HexOfBytes(b) ==
    IF Len(b) = 0 THEN << >>
    ELSE << b[1] \div 16, b[1] % 16 >> \o HexOfBytes(Tail(b))

\* one bit of CRC16/XMODEM: shift left, xor the polynomial 0x1021 when the
\* bit shifted out differs from the input bit (the xor flips bits 12, 5, 0
\* of the shifted value, whose bit 0 is clear)
FlipBit(x, k) == IF (x \div k) % 2 = 1 THEN x - k ELSE x + k

CrcBit(crc, bit) ==
    LET shifted == (crc * 2) % 65536
    IN  IF (crc \div 32768) % 2 # bit
        THEN FlipBit(FlipBit(shifted, 4096), 32) + 1
        ELSE shifted

\* the 8 bits of a byte, most significant first
CrcByte(crc, byte) ==
    LET c1 == CrcBit(crc, (byte \div 128) % 2)
        c2 == CrcBit(c1, (byte \div 64) % 2)
        c3 == CrcBit(c2, (byte \div 32) % 2)
        c4 == CrcBit(c3, (byte \div 16) % 2)
        c5 == CrcBit(c4, (byte \div 8) % 2)
        c6 == CrcBit(c5, (byte \div 4) % 2)
        c7 == CrcBit(c6, (byte \div 2) % 2)
    IN  CrcBit(c7, byte % 2)

\* crc16.crc16xmodem(b): CRC16/XMODEM, polynomial 0x1021, initial value 0
RECURSIVE CrcFrom(_, _)
CrcFrom(crc, b) ==
    IF Len(b) = 0 THEN crc
    ELSE LET next == CrcByte(crc, b[1])
         IN  IF next \in 0..65535 THEN CrcFrom(next, Tail(b)) ELSE next

Crc16Xmodem(b) == CrcFrom(0, b)

\* calcCRC16 after the CRC is computed: format as hex, pad a 3-digit string
\* to 4, then swap the two halves str_crc[2:] + str_crc[0:2]
SwapCrc(int_crc) ==
    LET str == FormatHex(int_crc)
        str_crc == IF Len(str) = 3 THEN << 0 >> \o str ELSE str
        c1 == SliceFrom(str_crc, 2)
        c2 == Slice(str_crc, 0, 2)
    IN  c1 \o c2

CalcCRC16_const(msg) == << 0, 0, 0, 0 >>

\* ZR10SDK.calcCRC16: None when bytes.fromhex raises
CalcCRC16(msg) ==
    IF FromHexFails(msg) THEN None
    ELSE SwapCrc(Crc16Xmodem(BytesFromHex(msg)))

STX == << 5, 5, 6, 6 >>
CTRL == << 0, 1 >>
SEQ == << 0, 0, 0, 0 >>

\* ZR10SDK.encodeMsg: '' when calcCRC16 returned None
EncodeMsg(data_len, data, cmd_id) ==
    LET msg_front == STX \o CTRL \o data_len \o SEQ \o cmd_id \o data
        crc == CalcCRC16(msg_front)
    IN  IF crc # None THEN msg_front \o crc ELSE << >>

\* ZR10SDK.decodeMsg: exc is TRUE when int('0x' + data_len, base=16) raises
\* ValueError (the length field is missing); data is the string returned
DecodeMsg(msg) ==
    IF Len(msg) = 0 THEN [exc |-> FALSE, data |-> << >>]
    ELSE LET msg_crc == SliceLast(msg, 4)
             payload == SliceButLast(msg, 4)
             crc == CalcCRC16(payload)
             l1 == Slice(msg, 6, 8)
             l2 == Slice(msg, 8, 10)
             data_len == l2 \o l1
             char_len == IntOfHex(data_len) * 2
         IN  IF crc # msg_crc THEN [exc |-> FALSE, data |-> << >>]
             ELSE IF Len(data_len) = 0 THEN [exc |-> TRUE, data |-> << >>]
             ELSE [exc |-> FALSE, data |-> Slice(msg, 16, 16 + char_len)]

\* ZR10SDK.toHex(val, nbits): two's complement, padded to 2 digits at least
ToHex(val, nbits) ==
    LET h == FormatHex((val + 2 ^ nbits) % (2 ^ nbits))
    IN  IF Len(h) = 1 THEN << 0 >> \o h ELSE h

\* ZR10SDK.toInt(hexval): a 16-bit two's complement value
ToInt(hexval) ==
    LET val == IntOfHex(hexval)
    IN  IF (val \div 32768) % 2 = 1 THEN val - 65536 ELSE val

\* ======================================================================
\* ZR10SDK: the message constructors (data_len, data, cmd_id of each)
\* ======================================================================
Msg(l, d, c) == [len |-> l, data |-> d, cmd |-> c]

\* the constructors without arguments
FixedMsg(name) ==
    CASE name = "acquireFirmwareVersionMsg" -> Msg(<<0,0,0,0>>, << >>, <<0,1>>)
      [] name = "acquireHardwareIdMsg" -> Msg(<<0,0,0,0>>, << >>, <<0,2>>)
      [] name = "autoFocusMsg" -> Msg(<<0,1,0,0>>, <<0,1>>, <<0,4>>)
      [] name = "stopZoomMsg" -> Msg(<<0,1,0,0>>, <<0,0>>, <<0,5>>)
      [] name = "zoomInMsg" -> Msg(<<0,1,0,0>>, <<0,1>>, <<0,5>>)
      [] name = "zoomOutMsg" -> Msg(<<0,1,0,0>>, <<15,15>>, <<0,5>>)
      [] name = "centerMsg" -> Msg(<<0,1,0,0>>, <<0,1>>, <<0,8>>)
      [] name = "gimbalInfoMsg" -> Msg(<<0,0,0,0>>, << >>, <<0,10>>)
      [] name = "functionFeedbackMsg" -> Msg(<<0,0,0,0>>, << >>, <<0,11>>)
      [] name = "takePhotoMsg" -> Msg(<<0,1,0,0>>, <<0,0>>, <<0,12>>)
      [] name = "startStopRecordingMsg" -> Msg(<<0,1,0,0>>, <<0,2>>, <<0,12>>)
      [] name = "lockModeMsg" -> Msg(<<0,1,0,0>>, <<0,3>>, <<0,12>>)
      [] name = "followModeMsg" -> Msg(<<0,1,0,0>>, <<0,4>>, <<0,12>>)
      [] name = "fpvModeMsg" -> Msg(<<0,1,0,0>>, <<0,5>>, <<0,12>>)
      [] name = "gimbalAttitudeMsg" -> Msg(<<0,0,0,0>>, << >>, <<0,13>>)

FixedMsgNames ==
    { "acquireFirmwareVersionMsg", "acquireHardwareIdMsg", "autoFocusMsg",
      "stopZoomMsg", "zoomInMsg", "zoomOutMsg", "centerMsg", "gimbalInfoMsg",
      "functionFeedbackMsg", "takePhotoMsg", "startStopRecordingMsg",
      "lockModeMsg", "followModeMsg", "fpvModeMsg", "gimbalAttitudeMsg" }

\* manualFocusMsg(flag)
ManualFocusMsg(flag) == Msg(<<0,1,0,0>>, ToHex(flag, 8), <<0,6>>)

\* gimbalRotationMsg(yaw_speed, pitch_speed)
GimbalRotationMsg(yaw_speed, pitch_speed) ==
    Msg(<<0,2,0,0>>, ToHex(yaw_speed, 8) \o ToHex(pitch_speed, 8), <<0,7>>)

\* the focus flags and a sample of the speeds -100..100 the callers pass
FocusFlags == { -1, 0, 1 }
Speeds == { -100, -90, -1, 0, 1, 24, 100 }

\* what the catalog constructors pass to encodeMsg
CatalogMsgs ==
    { FixedMsg(name) : name \in FixedMsgNames }
        \cup { ManualFocusMsg(flag) : flag \in FocusFlags }
        \cup { GimbalRotationMsg(y, p) : y \in Speeds, p \in Speeds }

\* the encoded message of a constructor
Encoded(m) == EncodeMsg(m.len, m.data, m.cmd)

\* ======================================================================
\* The codec applied to drawn inputs: a message is built, encoded, decoded
\* ======================================================================
\* a byte as two hex digits, and a DATA_LEN field: the byte count as a
\* little-endian 16-bit number
HexByte(b) == << b \div 16, b % 16 >>
LenField(n) == HexByte(n % 256) \o HexByte(n \div 256)

CodecBuild(m) ==
    /\ x_pc = "idle"
    /\ x_len' = m.len /\ x_data' = m.data /\ x_cmd' = m.cmd
    /\ x_pc' = "built"
    /\ UNCHANGED << env, stream_vars, ctl_vars, x_crc, x_msg, x_out >>

CodecBuildFixed == \E name \in FixedMsgNames : CodecBuild(FixedMsg(name))

CodecBuildFocus == \E flag \in FocusFlags : CodecBuild(ManualFocusMsg(flag))

CodecBuildRotation ==
    \E y \in Speeds, p \in Speeds : CodecBuild(GimbalRotationMsg(y, p))

\* any command id with an empty or a one-byte payload and its DATA_LEN
CodecBuildAny ==
    \E c \in 0..MaxCmdId :
        \/ CodecBuild(Msg(LenField(0), << >>, HexByte(c)))
        \/ \E b \in 0..MaxPayloadByte :
               CodecBuild(Msg(LenField(1), HexByte(b), HexByte(c)))

CodecEncode ==
    /\ x_pc = "built"
    /\ x_msg' = EncodeMsg(x_len, x_data, x_cmd)
    /\ x_pc' = "encoded"
    /\ UNCHANGED << env, stream_vars, ctl_vars, x_crc, x_len, x_data, x_cmd, x_out >>

CodecDecode ==
    /\ x_pc = "encoded"
    /\ x_out' = DecodeMsg(x_msg)
    /\ x_pc' = "decoded"
    /\ UNCHANGED << env, stream_vars, ctl_vars, x_crc, x_len, x_data, x_cmd, x_msg >>

\* ---- calcCRC16 from the point where crc16xmodem has returned int_crc,
\* for each value a 16-bit CRC can take
CrcValues == 0..(2 ^ 16 - 1)

CodecCrc ==
    /\ x_pc = "idle"
    /\ \E c \in CrcValues :
           /\ x_crc' = c
           /\ x_out' = [exc |-> FALSE, data |-> SwapCrc(c)]
    /\ x_pc' = "crc"
    /\ UNCHANGED << env, stream_vars, ctl_vars, x_len, x_data, x_cmd, x_msg >>

\* one bit of the hex digit at position i flipped (bit is 1, 2, 4 or 8)
FlipDigit(msg, i, bit) == [msg EXCEPT ![i] = FlipBit(msg[i], bit)]

\* ---- a single bit of the encoded frame is flipped on the way
CodecFlip ==
    /\ x_pc = "encoded"
    /\ \E i \in 1..Len(x_msg) : \E bit \in { 1, 2, 4, 8 } :
           x_msg' = FlipDigit(x_msg, i, bit)
    /\ x_pc' = "flipped"
    /\ UNCHANGED << env, stream_vars, ctl_vars, x_crc, x_len, x_data, x_cmd, x_out >>

\* ---- decodeMsg of the frame with the flipped bit
CodecDecodeFlipped ==
    /\ x_pc = "flipped"
    /\ x_out' = DecodeMsg(x_msg)
    /\ x_pc' = "decodedflip"
    /\ UNCHANGED << env, stream_vars, ctl_vars, x_crc, x_len, x_data, x_cmd, x_msg >>

\* ======================================================================
\* ZR10SDK: the operations over the UDP socket.  ctl_op is the operation
\* the caller invoked, ctl_req the request/reply routine running inside
\* it, ctl_pc the position: "cmd" before the command frame of a compound
\* operation, "send" before sendMsg, "rcv" in rcvMsg, "parse" after it,
\* "ret" when the routine has returned ctl_val to the operation.
\* ======================================================================
\* a result: kind says how to read v ("None", "bool", "int" as hex digits,
\* "hex" string, "tenths" of a unit, "pair"), or names the exception raised
Ret(kind, v) == [kind |-> kind, v |-> v]
Pending == Ret("pending", << >>)
RetNone == Ret("None", << >>)
RetBool(b) == Ret("bool", << IF b THEN 1 ELSE 0 >>)
Raised(r) == r.kind \in { "ValueError", "AttributeError" }

\* the operations that send one request and wait for its reply
RequestOps ==
    { "getFirmwareVersion", "getHardwareID", "getGimbalAttitude",
      "getGimbalInfo", "getFuncFeedback", "setAutoFocus", "setZoom",
      "setFocus", "centerGimbal", "setGimbalSpeed" }

\* the operations that send a command frame and then ask for the function
\* feedback
CommandOps ==
    { "takePhoto", "toggleRecording", "setLockMode", "setFollowMode",
      "setFPVMode" }

\* the frame each request/reply operation builds
RequestMsg(req, arg) ==
    CASE req = "getFirmwareVersion" -> Encoded(FixedMsg("acquireFirmwareVersionMsg"))
      [] req = "getHardwareID" -> Encoded(FixedMsg("acquireHardwareIdMsg"))
      [] req = "getGimbalAttitude" -> Encoded(FixedMsg("gimbalAttitudeMsg"))
      [] req = "getGimbalInfo" -> Encoded(FixedMsg("gimbalInfoMsg"))
      [] req = "getFuncFeedback" -> Encoded(FixedMsg("functionFeedbackMsg"))
      [] req = "setAutoFocus" -> Encoded(FixedMsg("autoFocusMsg"))
      [] req = "setZoom" ->
             IF arg[1] = 1 THEN Encoded(FixedMsg("zoomInMsg"))
             ELSE IF arg[1] = -1 THEN Encoded(FixedMsg("zoomOutMsg"))
             ELSE Encoded(FixedMsg("stopZoomMsg"))
      [] req = "setFocus" -> Encoded(ManualFocusMsg(arg[1]))
      [] req = "centerGimbal" -> Encoded(FixedMsg("centerMsg"))
      [] req = "setGimbalSpeed" -> Encoded(GimbalRotationMsg(arg[1], arg[2]))

\* the command frame each compound operation sends first
CommandMsg(op) ==
    CASE op = "takePhoto" -> Encoded(FixedMsg("takePhotoMsg"))
      [] op = "toggleRecording" -> Encoded(FixedMsg("startStopRecordingMsg"))
      [] op = "setLockMode" -> Encoded(FixedMsg("lockModeMsg"))
      [] op = "setFollowMode" -> Encoded(FixedMsg("followModeMsg"))
      [] op = "setFPVMode" -> Encoded(FixedMsg("fpvModeMsg"))

\* int(s, 16) of any length, kept as its hex digits without leading zeros
\* (a Python int is unbounded)
RECURSIVE StripZeros(_)
StripZeros(s) ==
    IF Len(s) > 1 /\ s[1] = 0 THEN StripZeros(Tail(s)) ELSE s

IsZero(digits) == digits = << 0 >>
IsOne(digits) == digits = << 1 >>

Word_noswap(hex_str, i) == Slice(hex_str, 4 * i, 4 * i + 4)

\* the two bytes at hex_str[4i : 4i+4] swapped, as the code concatenates
\* hex_str[4i+2 : 4i+4] + hex_str[4i : 4i+2]
Word(hex_str, i) ==
    Slice(hex_str, 4 * i + 2, 4 * i + 4) \o Slice(hex_str, 4 * i, 4 * i + 2)

\* what each request/reply operation returns for a non-empty decoded
\* payload; int('', 16) raises ValueError
ParseReply(req, hex_str) ==
    CASE req = "getFirmwareVersion" -> Ret("hex", Slice(hex_str, 8, 16))
      [] req = "getHardwareID" -> Ret("hex", hex_str)
      [] req = "getGimbalAttitude" ->
             IF \E i \in 0..5 : Len(Word(hex_str, i)) = 0
             THEN Ret("ValueError", << >>)
             ELSE Ret("tenths", [i \in 1..6 |-> ToInt(Word(hex_str, i - 1))])
      [] req = "getGimbalInfo" ->
             IF Len(SliceNeg(hex_str, 4, 2)) = 0
             THEN Ret("ValueError", << >>)
             ELSE Ret("pair", << IntOfHex(SliceNeg(hex_str, 4, 2)),
                                 IntOfHex(SliceLast(hex_str, 2)) >>)
      [] req = "getFuncFeedback" -> Ret("int", StripZeros(hex_str))
      [] req = "setAutoFocus" -> RetBool(IsOne(StripZeros(hex_str)))
      [] req = "setZoom" -> Ret("tenths", << IntOfHex(Word(hex_str, 0)) >>)
      [] req = "setFocus" -> RetBool(~IsZero(StripZeros(hex_str)))
      [] req = "centerGimbal" -> RetBool(IsOne(StripZeros(hex_str)))
      [] req = "setGimbalSpeed" -> RetBool(IsOne(StripZeros(hex_str)))

\* ---- the camera: the datagrams it may put on the socket.  The camera
\* writes the CRC as two bytes, low byte first.
WireCrc(c) == HexByte(c % 256) \o HexByte(c \div 256)

DeviceFrame(cmd, data) ==
    LET front == STX \o CTRL \o LenField(Len(data) \div 2) \o SEQ
                     \o HexByte(cmd) \o data
    IN  front \o WireCrc(Crc16Xmodem(BytesFromHex(front)))

\* attitude yaw 10.0, pitch -1.5, the rest 0; gimbal info recording on,
\* mounted normally
AttitudeData == << 6,4,0,0, 15,1,15,15, 0,0,0,0, 0,0,0,0, 0,0,0,0, 0,0,0,0 >>
GimbalInfoData == << 0,0, 0,0, 0,0, 0,1, 0,1 >>

Replies ==
    { DeviceFrame(8, << 0, 1 >>),
      DeviceFrame(11, << 0, 0 >>),
      DeviceFrame(13, AttitudeData),
      DeviceFrame(10, GimbalInfoData),
      SliceButLast(DeviceFrame(8, << 0, 1 >>), 1) \o << 0 >> }

\* ---- the caller's inputs
ZoomFlags == { -1, 0, 1 }
SpeedPairs == { << 0, 0 >>, << -90, 24 >>, << -97, 100 >> }
Targets == { << 0, 0 >>, << 10, -2 >>, << 50, 0 >>, << 0, -95 >> }

RequestArgs(op) ==
    CASE op = "setZoom" -> { << f >> : f \in ZoomFlags }
      [] op = "setFocus" -> { << f >> : f \in FocusFlags }
      [] op = "setGimbalSpeed" -> SpeedPairs
      [] OTHER -> { << >> }

\* ---- sendMsg: one more frame on the wire since the last receive
Sent_twice(n) == n + 2
Sent(n) == n + 1

\* ---- decodeMsg applied to datagrams of fewer than 10 bytes: up to 7
\* bytes followed by their CRC16 as the camera writes it, or by a wrong one
ShortBytes == { 0, 1, 85 }

ShortBodies ==
    UNION { [1..n -> ShortBytes] : n \in 0..7 }

CodecShort ==
    /\ x_pc = "idle"
    /\ \E body \in ShortBodies : \E wrong \in BOOLEAN :
           /\ x_data' = HexOfBytes(body)
           /\ x_crc' = Crc16Xmodem(body)
           /\ x_msg' = HexOfBytes(body)
                          \o WireCrc(IF wrong THEN FlipBit(Crc16Xmodem(body), 1)
                                      ELSE Crc16Xmodem(body))
           /\ x_out' = DecodeMsg(x_msg')
    /\ x_pc' = "short"
    /\ UNCHANGED << env, stream_vars, ctl_vars, x_len, x_cmd >>

\* ---- decodeMsg applied to CRC-valid frames whose DATA_LEN field declares
\* 0..3 bytes while the frame carries 0..2 DATA bytes
SkewedData ==
    UNION { [1..n -> { 1, 85 }] : n \in 0..2 }

CodecSkewed ==
    /\ x_pc = "idle"
    /\ \E declared \in 0..3 : \E data \in SkewedData : \E c \in 0..MaxCmdId :
           /\ x_len' = LenField(declared)
           /\ x_data' = HexOfBytes(data)
           /\ x_cmd' = HexByte(c)
           /\ x_msg' = LET front == STX \o CTRL \o LenField(declared) \o SEQ
                                        \o HexByte(c) \o HexOfBytes(data)
                        IN  front \o WireCrc(Crc16Xmodem(BytesFromHex(front)))
           /\ x_out' = DecodeMsg(x_msg')
    /\ x_pc' = "skewed"
    /\ UNCHANGED << env, stream_vars, ctl_vars, x_crc >>

\* ---- the attitude parse of getGimbalAttitude applied to 12-byte payloads:
\* each axis is one of these words (two bytes as they are on the wire:
\* 0x0064, 0xfff1, 0x8000, 0x7fff, low byte first)
AxisWords ==
    { << 6, 4, 0, 0 >>, << 15, 1, 15, 15 >>, << 0, 0, 8, 0 >>,
      << 15, 15, 7, 15 >> }

CodecAttitude ==
    /\ x_pc = "idle"
    /\ \E w1, w2, w3 \in AxisWords : \E w4, w5, w6 \in AxisWords :
           /\ x_data' = w1 \o w2 \o w3 \o w4 \o w5 \o w6
           /\ x_out' = [exc |-> Raised(ParseReply("getGimbalAttitude", x_data')),
                        data |-> ParseReply("getGimbalAttitude", x_data').v]
    /\ x_pc' = "attitude"
    /\ UNCHANGED << env, stream_vars, ctl_vars, x_crc, x_len, x_cmd, x_msg >>

\* ---- leaving an operation: it returns r, or raises r to its caller
CtlReturn(r) ==
    /\ ctl_ret' = r
    /\ ctl_pc' = "idle"
    /\ ctl_req' = "none" /\ ctl_req_arg' = << >> /\ ctl_arg' = << >>
    /\ ctl_reply' = << >> /\ ctl_val' = Pending

\* the request/reply routine returns val to the operation that runs it
CtlYield(val) ==
    /\ ctl_val' = val
    /\ ctl_pc' = "ret"
    /\ UNCHANGED << ctl_op, ctl_req, ctl_req_arg, ctl_arg, ctl_ret >>

\* the operation goes on with the request/reply routine req(arg)
CtlRequest(req, arg) ==
    /\ ctl_req' = req /\ ctl_req_arg' = arg
    /\ ctl_pc' = "send"
    /\ ctl_reply' = << >> /\ ctl_val' = Pending

\* ---- the caller invokes a request/reply operation
CtlCallRequest ==
    \E op \in RequestOps : \E arg \in RequestArgs(op) :
        /\ ctl_pc = "idle" /\ ctl_calls < CtlCalls
        /\ ctl_calls' = ctl_calls + 1
        /\ last_speed' = << >>
        /\ ctl_op' = op /\ ctl_arg' = arg /\ ctl_ret' = Pending
        /\ CtlRequest(op, arg)
        /\ UNCHANGED << env, stream_vars, codec_vars, timed_out, inbox, unanswered >>

\* ---- the caller invokes takePhoto, toggleRecording, setLockMode,
\* setFollowMode or setFPVMode
CtlCallCommand ==
    \E op \in CommandOps :
        /\ ctl_pc = "idle" /\ ctl_calls < CtlCalls
        /\ ctl_calls' = ctl_calls + 1
        /\ last_speed' = << >>
        /\ ctl_op' = op /\ ctl_arg' = << >> /\ ctl_ret' = Pending
        /\ ctl_pc' = "cmd"
        /\ ctl_req' = "none" /\ ctl_req_arg' = << >>
        /\ ctl_reply' = << >> /\ ctl_val' = Pending
        /\ UNCHANGED << env, stream_vars, codec_vars, timed_out, inbox, unanswered >>

\* ---- the caller invokes setGimbalRotation(yaw, pitch): outside the
\* controllable range it returns at once
CtlCallRotation ==
    \E t \in Targets :
        /\ ctl_pc = "idle" /\ ctl_calls < CtlCalls
        /\ ctl_calls' = ctl_calls + 1
        /\ last_speed' = << >>
        /\ ctl_op' = "setGimbalRotation"
        /\ IF t[2] > 25 \/ t[2] < -90 \/ t[1] > 45 \/ t[1] < -45
           THEN CtlReturn(RetNone)
           ELSE /\ ctl_arg' = t /\ ctl_ret' = Pending
                /\ CtlRequest("getGimbalAttitude", << >>)
        /\ UNCHANGED << env, stream_vars, codec_vars, timed_out, inbox, unanswered >>

\* ---- a compound operation sends its command frame: sendMsg raises
\* ValueError when the frame has an odd number of hex digits
CtlCommand ==
    /\ ctl_pc = "cmd"
    /\ LET msg == CommandMsg(ctl_op)
       IN  IF Len(msg) > 0 /\ FromHexFails(msg)
           THEN /\ CtlReturn(Ret("ValueError", << >>))
                /\ UNCHANGED unanswered
           ELSE /\ unanswered' = IF Len(msg) > 0 THEN Sent(unanswered)
                                 ELSE unanswered
                /\ CtlRequest("getFuncFeedback", << >>)
                /\ UNCHANGED << ctl_arg, ctl_ret >>
    /\ UNCHANGED << env, stream_vars, codec_vars, timed_out, last_speed, ctl_op, inbox, ctl_calls >>

\* ---- the request/reply routine builds its frame and sends it
CtlSend ==
    /\ ctl_pc = "send"
    /\ LET msg == RequestMsg(ctl_req, ctl_req_arg)
       IN  IF Len(msg) = 0
           THEN /\ CtlYield(RetNone)
                /\ UNCHANGED << ctl_reply, unanswered, last_speed >>
           ELSE IF FromHexFails(msg)
           THEN /\ CtlReturn(Ret("ValueError", << >>))
                /\ UNCHANGED << ctl_op, unanswered, last_speed >>
           ELSE /\ unanswered' = Sent(unanswered)
                /\ last_speed' = IF ctl_req = "setGimbalSpeed"
                                 THEN ctl_req_arg ELSE last_speed
                /\ ctl_pc' = "rcv"
                /\ UNCHANGED << ctl_op, ctl_req, ctl_req_arg, ctl_arg,
                                ctl_reply, ctl_val, ctl_ret >>
    /\ UNCHANGED << env, stream_vars, codec_vars, timed_out, inbox, ctl_calls >>

Recvfrom_none(box) == None

\* socket.recvfrom under the timeout: the oldest datagram waiting on the
\* socket, whoever sent it and whenever; socket.timeout makes rcvMsg
\* return None
Recvfrom(box) == IF box # << >> THEN Head(box) ELSE None

\* ---- rcvMsg: the oldest datagram on the socket, or None when none came
\* within the timeout
CtlRcv ==
    /\ ctl_pc = "rcv"
    /\ ctl_reply' = Recvfrom(inbox)
    /\ inbox' = IF inbox # << >> THEN Tail(inbox) ELSE inbox
    /\ timed_out' = (timed_out \/ Recvfrom(inbox) = None)
    /\ unanswered' = 0
    /\ ctl_pc' = "parse"
    /\ UNCHANGED << env, stream_vars, codec_vars, last_speed, ctl_op, ctl_req,
                    ctl_req_arg, ctl_arg, ctl_val, ctl_ret, ctl_calls >>

\* ---- after rcvMsg: setAutoFocus logs server_msg.hex() before it tests
\* for None; then the None test, decodeMsg, the empty test and the parse
CtlParse ==
    /\ ctl_pc = "parse"
    /\ IF ctl_reply = None
       THEN IF ctl_req = "setAutoFocus"
            THEN CtlReturn(Ret("AttributeError", << >>)) /\ UNCHANGED ctl_op
            ELSE CtlYield(RetNone) /\ UNCHANGED ctl_reply
       ELSE LET d == DecodeMsg(ctl_reply)
            IN  IF d.exc
                THEN CtlReturn(Ret("ValueError", << >>)) /\ UNCHANGED ctl_op
                ELSE IF Len(d.data) = 0
                THEN CtlYield(RetNone) /\ UNCHANGED ctl_reply
                ELSE IF Raised(ParseReply(ctl_req, d.data))
                THEN /\ CtlReturn(ParseReply(ctl_req, d.data))
                     /\ UNCHANGED ctl_op
                ELSE /\ CtlYield(ParseReply(ctl_req, d.data))
                     /\ UNCHANGED ctl_reply
    /\ UNCHANGED << env, stream_vars, codec_vars, timed_out, last_speed, inbox, unanswered,
                    ctl_calls >>

\* ---- a request/reply operation returns what its routine returned
CtlAfterRequest ==
    /\ ctl_pc = "ret" /\ ctl_op \in RequestOps
    /\ CtlReturn(ctl_val)
    /\ UNCHANGED << env, stream_vars, codec_vars, timed_out, last_speed, ctl_op, inbox, unanswered,
                    ctl_calls >>

\* ---- takePhoto, setLockMode, setFollowMode, setFPVMode after
\* getFuncFeedback: True when the acknowledgement is 0
CtlAfterCommand ==
    /\ ctl_pc = "ret"
    /\ ctl_op \in { "takePhoto", "setLockMode", "setFollowMode", "setFPVMode" }
    /\ IF ctl_val = RetNone THEN CtlReturn(RetBool(FALSE))
       ELSE CtlReturn(RetBool(IsZero(ctl_val.v)))
    /\ UNCHANGED << env, stream_vars, codec_vars, timed_out, last_speed, ctl_op, inbox, unanswered,
                    ctl_calls >>

\* ---- toggleRecording after getFuncFeedback (False on a positive
\* acknowledgement, else getGimbalInfo) and after getGimbalInfo
CtlAfterRecording ==
    /\ ctl_pc = "ret" /\ ctl_op = "toggleRecording"
    /\ IF ctl_req = "getFuncFeedback"
       THEN IF ctl_val # RetNone /\ ~IsZero(ctl_val.v)
            THEN CtlReturn(RetBool(FALSE))
            ELSE /\ CtlRequest("getGimbalInfo", << >>)
                 /\ UNCHANGED << ctl_arg, ctl_ret >>
       ELSE IF ctl_val = RetNone THEN CtlReturn(RetBool(FALSE))
            ELSE CtlReturn(Ret("int", FormatHex(ctl_val.v[1])))
    /\ UNCHANGED << env, stream_vars, codec_vars, timed_out, last_speed, ctl_op, inbox, unanswered,
                    ctl_calls >>

\* int(gain * err) with gain = 3 and err in tenths: truncation toward zero
Trunc(a, b) == IF a >= 0 THEN a \div b ELSE -((-a) \div b)
Abs(a) == IF a >= 0 THEN a ELSE -a
SpeedSetpoint(err10) == Max(Min(100, Trunc(3 * err10, 10)), -100)

\* ---- setGimbalRotation after getGimbalAttitude and after setGimbalSpeed.
\* ctl_arg is << yaw, pitch >>, and << yaw, pitch, 1 >> once the goal is
\* reached and setGimbalSpeed(0, 0) is the last call before the break.
CtlAfterRotation ==
    /\ ctl_pc = "ret" /\ ctl_op = "setGimbalRotation"
    /\ IF ctl_req = "getGimbalAttitude"
       THEN IF ctl_val = RetNone THEN CtlReturn(RetNone)
            ELSE LET yaw_err10 == -(10 * ctl_arg[1]) + ctl_val.v[1]
                     pitch_err10 == 10 * ctl_arg[2] - ctl_val.v[2]
                 IN  IF Abs(yaw_err10) <= 10 /\ Abs(pitch_err10) <= 10
                     THEN /\ CtlRequest("setGimbalSpeed", << 0, 0 >>)
                          /\ ctl_arg' = Append(ctl_arg, 1)
                          /\ UNCHANGED ctl_ret
                     ELSE /\ CtlRequest("setGimbalSpeed",
                                 << SpeedSetpoint(yaw_err10),
                                    SpeedSetpoint(pitch_err10) >>)
                          /\ UNCHANGED << ctl_arg, ctl_ret >>
       ELSE IF Len(ctl_arg) = 3 \/ ctl_val # RetBool(TRUE)
            THEN CtlReturn(RetNone)
            ELSE /\ CtlRequest("getGimbalAttitude", << >>)
                 /\ UNCHANGED << ctl_arg, ctl_ret >>
    /\ UNCHANGED << env, stream_vars, codec_vars, timed_out, last_speed, ctl_op, inbox, unanswered,
                    ctl_calls >>

\* ---- the camera, or any other host, puts a datagram on the socket
DeviceDeliver ==
    \E r \in Replies :
        /\ Len(inbox) < InboxCap
        /\ inbox' = Append(inbox, r)
        /\ UNCHANGED << env, stream_vars, codec_vars, timed_out, last_speed, ctl_pc, ctl_op, ctl_req,
                        ctl_req_arg, ctl_arg, ctl_reply, ctl_val, ctl_ret,
                        unanswered, ctl_calls >>

\* ---- the controller and the codec at rest
CtlIdle ==
    /\ ctl_pc = "idle" /\ ctl_op = "none" /\ ctl_req = "none"
    /\ ctl_req_arg = << >> /\ ctl_arg = << >> /\ ctl_reply = << >>
    /\ ctl_val = Pending /\ ctl_ret = Pending
    /\ inbox = << >> /\ unanswered = 0 /\ ctl_calls = 0
    /\ timed_out = FALSE
    /\ last_speed = << >>

CodecIdle ==
    /\ x_pc = "idle" /\ x_len = << >> /\ x_data = << >> /\ x_cmd = << >>
    /\ x_msg = << >> /\ x_out = [exc |-> FALSE, data |-> << >>]
    /\ x_crc = 0

\* ---- history: what the threads did since the stop flag was set
NoWork == [pushes |-> 0, takes |-> 0, stores |-> 0]

Work(unit) ==
    IF running THEN after_stop ELSE [after_stop EXCEPT ![unit] = @ + 1]

\* ---- SIYISTREAM.__init__
StreamInit(packets, budget, callers) ==
    /\ stream_len = packets
    /\ call_budget = budget
    /\ running = FALSE
    /\ container = "none"
    /\ packet_queue = << >>
    /\ latest_frame = 0
    /\ frame_mutex = 0
    /\ reader_started = FALSE
    /\ decoder_started = FALSE
    /\ r_pc = "idle" /\ r_pkt = 0
    /\ d_pc = "idle" /\ d_pkt = 0 /\ d_img = 0
    /\ m_pc = "idle" /\ m_ret = "none" /\ calls = 0
    /\ gf_pc = [c \in 1..callers |-> "idle"]
    /\ gf_err = [c \in 1..callers |-> "none"]
    /\ gf_img = [c \in 1..callers |-> 0]
    /\ gf_cached = [c \in 1..callers |-> 0]
    /\ produced = 0 /\ pushed = 0
    /\ evicted = << >> /\ taken = << >> /\ first_taken = 0
    /\ published = {} /\ fresh = FALSE
    /\ after_stop = NoWork

Init == StreamInit(LifePackets, LifeCalls, LifeCallers) /\ CtlIdle /\ CodecIdle

ConnectCall_again ==
    /\ m_pc = "idle" /\ calls < call_budget
    /\ calls' = calls + 1
    /\ \/ /\ container' = "open"
          /\ m_pc' = "c_run"
          /\ m_ret' = "none"
          /\ fresh' = FALSE
       \/ /\ m_ret' = "raise"
          /\ UNCHANGED << container, m_pc, fresh >>
    /\ UNCHANGED << env, ctl_vars, codec_vars, after_stop,
                    running, packet_queue, latest_frame, frame_mutex,
                    reader_started, decoder_started, r_pc, r_pkt,
                    d_pc, d_pkt, d_img, gf_pc, gf_err, gf_img, gf_cached,
                    produced, pushed, evicted, taken, first_taken, published >>

ConnectCall_runfirst ==
    /\ m_pc = "idle" /\ calls < call_budget
    /\ calls' = calls + 1
    /\ IF running
       THEN /\ m_ret' = "None"
            /\ UNCHANGED << running, container, m_pc, fresh >>
       ELSE /\ running' = TRUE
            /\ \/ /\ container' = "open"
                  /\ m_pc' = "c_run"
                  /\ m_ret' = "none"
                  /\ fresh' = FALSE
               \/ /\ m_ret' = "raise"
                  /\ UNCHANGED << container, m_pc, fresh >>
    /\ UNCHANGED << env, ctl_vars, codec_vars, after_stop,
                    packet_queue, latest_frame, frame_mutex,
                    reader_started, decoder_started, r_pc, r_pkt,
                    d_pc, d_pkt, d_img, gf_pc, gf_err, gf_img, gf_cached,
                    produced, pushed, evicted, taken, first_taken, published >>

\* ---- SIYISTREAM.connect, called on the lifecycle thread
\* the running check, then av.open and demux (either may raise)
ConnectCall ==
    /\ m_pc = "idle" /\ calls < call_budget
    /\ calls' = calls + 1
    /\ IF running
       THEN /\ m_ret' = "None"
            /\ UNCHANGED << container, m_pc, fresh >>
       ELSE \/ /\ container' = "open"
               /\ m_pc' = "c_run"
               /\ m_ret' = "none"
               /\ fresh' = FALSE
            \/ /\ m_ret' = "raise"
               /\ UNCHANGED << container, m_pc, fresh >>
    /\ UNCHANGED << env, ctl_vars, codec_vars, after_stop,
                    running, packet_queue, latest_frame, frame_mutex,
                    reader_started, decoder_started, r_pc, r_pkt,
                    d_pc, d_pkt, d_img, gf_pc, gf_err, gf_img, gf_cached,
                    produced, pushed, evicted, taken, first_taken, published >>

\* self._running = True
ConnectRun ==
    /\ m_pc = "c_run"
    /\ running' = TRUE
    /\ m_pc' = "c_start_r"
    /\ UNCHANGED << env, ctl_vars, codec_vars, after_stop,
                    container, packet_queue, latest_frame, frame_mutex,
                    reader_started, decoder_started, r_pc, r_pkt,
                    d_pc, d_pkt, d_img, m_ret, calls, gf_pc, gf_err, gf_img, gf_cached,
                    produced, pushed, evicted, taken, first_taken, published, fresh >>

\* self._reader_thread.start(): a Thread object can be started only once,
\* a second start() raises RuntimeError out of connect()
ConnectStartReader ==
    /\ m_pc = "c_start_r"
    /\ IF reader_started
       THEN /\ m_ret' = "raise"
            /\ m_pc' = "idle"
            /\ UNCHANGED << reader_started, r_pc >>
       ELSE /\ reader_started' = TRUE
            /\ r_pc' = "while"
            /\ m_pc' = "c_start_d"
            /\ UNCHANGED m_ret
    /\ UNCHANGED << env, ctl_vars, codec_vars, after_stop,
                    running, container, packet_queue, latest_frame,
                    frame_mutex, decoder_started, r_pkt,
                    d_pc, d_pkt, d_img, calls, gf_pc, gf_err, gf_img, gf_cached,
                    produced, pushed, evicted, taken, first_taken, published, fresh >>

\* self._decoder_thread.start(); return True
ConnectStartDecoder ==
    /\ m_pc = "c_start_d"
    /\ IF decoder_started
       THEN /\ m_ret' = "raise"
            /\ UNCHANGED << decoder_started, d_pc >>
       ELSE /\ decoder_started' = TRUE
            /\ d_pc' = "while"
            /\ m_ret' = "True"
    /\ m_pc' = "idle"
    /\ UNCHANGED << env, ctl_vars, codec_vars, after_stop,
                    running, container, packet_queue, latest_frame,
                    frame_mutex, reader_started, r_pc, r_pkt,
                    d_pkt, d_img, calls, gf_pc, gf_err, gf_img, gf_cached,
                    produced, pushed, evicted, taken, first_taken, published, fresh >>

\* ---- SIYISTREAM.disconnect
\* the running check, then self._running = False
DisconnectCall ==
    /\ m_pc = "idle" /\ calls < call_budget
    /\ calls' = calls + 1
    /\ IF ~running
       THEN /\ m_ret' = "None"
            /\ UNCHANGED << running, m_pc, after_stop >>
       ELSE /\ running' = FALSE
            /\ m_pc' = "d_join_r"
            /\ m_ret' = "none"
            /\ after_stop' = NoWork
    /\ UNCHANGED << env, ctl_vars, codec_vars,
                    container, packet_queue, latest_frame, frame_mutex,
                    reader_started, decoder_started, r_pc, r_pkt,
                    d_pc, d_pkt, d_img, gf_pc, gf_err, gf_img, gf_cached,
                    produced, pushed, evicted, taken, first_taken, published, fresh >>

DisconnectJoinReader_close ==
    /\ m_pc = "d_join_r"
    /\ m_pc' = "d_close"
    /\ UNCHANGED << env, ctl_vars, codec_vars, after_stop,
                    running, container, packet_queue, latest_frame,
                    frame_mutex, reader_started, decoder_started, r_pc, r_pkt,
                    d_pc, d_pkt, d_img, m_ret, calls, gf_pc, gf_err, gf_img, gf_cached,
                    produced, pushed, evicted, taken, first_taken, published, fresh >>

\* self._reader_thread.join(timeout=2.0): returns when the reader has ended,
\* or when the timeout expires with the reader still alive
DisconnectJoinReader ==
    /\ m_pc = "d_join_r"
    /\ m_pc' = "d_join_d"
    /\ UNCHANGED << env, ctl_vars, codec_vars, after_stop,
                    running, container, packet_queue, latest_frame,
                    frame_mutex, reader_started, decoder_started, r_pc, r_pkt,
                    d_pc, d_pkt, d_img, m_ret, calls, gf_pc, gf_err, gf_img, gf_cached,
                    produced, pushed, evicted, taken, first_taken, published, fresh >>

\* self._decoder_thread.join(timeout=2.0)
DisconnectJoinDecoder ==
    /\ m_pc = "d_join_d"
    /\ m_pc' = "d_close"
    /\ UNCHANGED << env, ctl_vars, codec_vars, after_stop,
                    running, container, packet_queue, latest_frame,
                    frame_mutex, reader_started, decoder_started, r_pc, r_pkt,
                    d_pc, d_pkt, d_img, m_ret, calls, gf_pc, gf_err, gf_img, gf_cached,
                    produced, pushed, evicted, taken, first_taken, published, fresh >>

\* if self._container: self._container.close(); return True
DisconnectClose ==
    /\ m_pc = "d_close"
    /\ container' = IF container = "none" THEN "none" ELSE "closed"
    /\ m_ret' = "True"
    /\ m_pc' = "idle"
    /\ UNCHANGED << env, ctl_vars, codec_vars, after_stop,
                    running, packet_queue, latest_frame, frame_mutex,
                    reader_started, decoder_started, r_pc, r_pkt,
                    d_pc, d_pkt, d_img, calls, gf_pc, gf_err, gf_img, gf_cached,
                    produced, pushed, evicted, taken, first_taken, published, fresh >>

ReaderWhile_deaf ==
    /\ r_pc = "while"
    /\ r_pc' = "next"
    /\ UNCHANGED << env, ctl_vars, codec_vars, after_stop,
                    running, container, packet_queue, latest_frame,
                    frame_mutex, reader_started, decoder_started, r_pkt,
                    d_pc, d_pkt, d_img, m_pc, m_ret, calls,
                    gf_pc, gf_err, gf_img, gf_cached,
                    produced, pushed, evicted, taken, first_taken, published, fresh >>

\* ---- SIYISTREAM._reader_loop
\* while self._running
ReaderWhile ==
    /\ r_pc = "while"
    /\ r_pc' = IF running THEN "next" ELSE "done"
    /\ UNCHANGED << env, ctl_vars, codec_vars, after_stop,
                    running, container, packet_queue, latest_frame,
                    frame_mutex, reader_started, decoder_started, r_pkt,
                    d_pc, d_pkt, d_img, m_pc, m_ret, calls,
                    gf_pc, gf_err, gf_img, gf_cached,
                    produced, pushed, evicted, taken, first_taken, published, fresh >>

\* packet = next(self._stream): the open container yields the next packet
ReaderNextPacket ==
    /\ r_pc = "next"
    /\ container = "open" /\ produced < stream_len
    /\ produced' = produced + 1
    /\ r_pkt' = produced + 1
    /\ r_pc' = "len"
    /\ UNCHANGED << env, ctl_vars, codec_vars, after_stop,
                    running, container, packet_queue, latest_frame,
                    frame_mutex, reader_started, decoder_started,
                    d_pc, d_pkt, d_img, m_pc, m_ret, calls,
                    gf_pc, gf_err, gf_img, gf_cached,
                    pushed, evicted, taken, first_taken, published, fresh >>

\* next(self._stream) raises StopIteration: warning, break
ReaderNextStop ==
    /\ r_pc = "next"
    /\ r_pc' = "done"
    /\ UNCHANGED << env, ctl_vars, codec_vars, after_stop,
                    running, container, packet_queue, latest_frame,
                    frame_mutex, reader_started, decoder_started, r_pkt,
                    d_pc, d_pkt, d_img, m_pc, m_ret, calls,
                    gf_pc, gf_err, gf_img, gf_cached,
                    produced, pushed, evicted, taken, first_taken, published, fresh >>

\* next(self._stream) raises another exception: logged, sleep(0.1), continue
ReaderNextError ==
    /\ r_pc = "next"
    /\ r_pc' = "while"
    /\ UNCHANGED << env, ctl_vars, codec_vars, after_stop,
                    running, container, packet_queue, latest_frame,
                    frame_mutex, reader_started, decoder_started, r_pkt,
                    d_pc, d_pkt, d_img, m_pc, m_ret, calls,
                    gf_pc, gf_err, gf_img, gf_cached,
                    produced, pushed, evicted, taken, first_taken, published, fresh >>

\* if len(self._packet_queue) == self._packet_queue.maxlen
ReaderLen ==
    /\ r_pc = "len"
    /\ r_pc' = IF DequeLen(packet_queue) = maxlen THEN "popleft" ELSE "append"
    /\ UNCHANGED << env, ctl_vars, codec_vars, after_stop,
                    running, container, packet_queue, latest_frame,
                    frame_mutex, reader_started, decoder_started, r_pkt,
                    d_pc, d_pkt, d_img, m_pc, m_ret, calls,
                    gf_pc, gf_err, gf_img, gf_cached,
                    produced, pushed, evicted, taken, first_taken, published, fresh >>

\* self._packet_queue.popleft(); on an empty deque it raises IndexError,
\* which the loop's except Exception catches: the packet in hand is dropped
ReaderPopleft ==
    /\ r_pc = "popleft"
    /\ IF packet_queue = << >>
       THEN /\ r_pc' = "while"
            /\ r_pkt' = 0
            /\ UNCHANGED << packet_queue, evicted >>
       ELSE /\ evicted' = Append(evicted, PopleftValue(packet_queue))
            /\ packet_queue' = PopleftRest(packet_queue)
            /\ r_pc' = "append"
            /\ UNCHANGED r_pkt
    /\ UNCHANGED << env, ctl_vars, codec_vars, after_stop,
                    running, container, latest_frame,
                    frame_mutex, reader_started, decoder_started,
                    d_pc, d_pkt, d_img, m_pc, m_ret, calls,
                    gf_pc, gf_err, gf_img, gf_cached,
                    produced, pushed, taken, first_taken, published, fresh >>

\* self._packet_queue.append(packet)
ReaderAppend ==
    /\ r_pc = "append"
    /\ packet_queue' = DequeAppend(packet_queue, r_pkt)
    /\ evicted' = IF DequeAppendDiscard(packet_queue) = 0
                  THEN evicted
                  ELSE Append(evicted, DequeAppendDiscard(packet_queue))
    /\ pushed' = pushed + 1
    /\ r_pkt' = 0
    /\ r_pc' = "while"
    /\ after_stop' = Work("pushes")
    /\ UNCHANGED << env, ctl_vars, codec_vars,
                    running, container, latest_frame,
                    frame_mutex, reader_started, decoder_started,
                    d_pc, d_pkt, d_img, m_pc, m_ret, calls,
                    gf_pc, gf_err, gf_img, gf_cached,
                    produced, taken, first_taken, published, fresh >>

\* history: one more pop of packet p
CountTake(t, p) ==
    IF p \in DOMAIN t THEN [t EXCEPT ![p] = @ + 1] ELSE t @@ (p :> 1)

\* ---- SIYISTREAM._decoder_loop
\* while self._running
DecoderWhile ==
    /\ d_pc = "while"
    /\ d_pc' = IF running THEN "empty" ELSE "done"
    /\ UNCHANGED << env, ctl_vars, codec_vars, after_stop,
                    running, container, packet_queue, latest_frame,
                    frame_mutex, reader_started, decoder_started, r_pc, r_pkt,
                    d_pkt, d_img, m_pc, m_ret, calls, gf_pc, gf_err, gf_img, gf_cached,
                    produced, pushed, evicted, taken, first_taken, published, fresh >>

\* if not self._packet_queue: sleep(0.005); continue
DecoderEmpty ==
    /\ d_pc = "empty"
    /\ d_pc' = IF DequeLen(packet_queue) = 0 THEN "while" ELSE "pop"
    /\ UNCHANGED << env, ctl_vars, codec_vars, after_stop,
                    running, container, packet_queue, latest_frame,
                    frame_mutex, reader_started, decoder_started, r_pc, r_pkt,
                    d_pkt, d_img, m_pc, m_ret, calls, gf_pc, gf_err, gf_img, gf_cached,
                    produced, pushed, evicted, taken, first_taken, published, fresh >>

\* packet = self._packet_queue.pop(), outside the try block: on an empty
\* deque the IndexError ends the decoder thread
DecoderPop ==
    /\ d_pc = "pop"
    /\ IF packet_queue = << >>
       THEN /\ d_pc' = "dead"
            /\ UNCHANGED after_stop
            /\ UNCHANGED << packet_queue, d_pkt, taken, first_taken >>
       ELSE /\ d_pkt' = PopValue(packet_queue)
            /\ packet_queue' = PopRest(packet_queue)
            /\ taken' = CountTake(taken, PopValue(packet_queue))
            /\ first_taken' = IF first_taken = 0
                              THEN PopValue(packet_queue) ELSE first_taken
            /\ d_pc' = "decode"
            /\ after_stop' = Work("takes")
    /\ UNCHANGED << env, ctl_vars, codec_vars,
                    running, container, latest_frame,
                    frame_mutex, reader_started, decoder_started, r_pc, r_pkt,
                    d_img, m_pc, m_ret, calls, gf_pc, gf_err, gf_img, gf_cached,
                    produced, pushed, evicted, published, fresh >>

\* the image frame.to_ndarray() builds from the last frame of a packet
ImageOf(pkt) == pkt

\* frames = packet.decode(); frame = frames[-1]; img = frame.to_ndarray()
DecoderDecodeImage ==
    /\ d_pc = "decode"
    /\ d_img' = ImageOf(d_pkt)
    /\ d_pkt' = 0
    /\ d_pc' = "lock"
    /\ UNCHANGED << env, ctl_vars, codec_vars, after_stop,
                    running, container, packet_queue, latest_frame,
                    frame_mutex, reader_started, decoder_started, r_pc, r_pkt,
                    m_pc, m_ret, calls, gf_pc, gf_err, gf_img, gf_cached,
                    produced, pushed, evicted, taken, first_taken, published, fresh >>

\* packet.decode() returns no frame, or raises (logged, sleep(0.01)): the
\* loop goes on without touching the cache
DecoderDecodeNothing ==
    /\ d_pc = "decode"
    /\ d_pkt' = 0
    /\ d_pc' = "while"
    /\ UNCHANGED << env, ctl_vars, codec_vars, after_stop,
                    running, container, packet_queue, latest_frame,
                    frame_mutex, reader_started, decoder_started, r_pc, r_pkt,
                    d_img, m_pc, m_ret, calls, gf_pc, gf_err, gf_img, gf_cached,
                    produced, pushed, evicted, taken, first_taken, published, fresh >>

\* threading.Lock.acquire(): taken only when free
MutexFree_always(m) == TRUE

MutexFree(m) == m = 0

\* with self._frame_mutex: (the decoder enters)
DecoderLock ==
    /\ d_pc = "lock"
    /\ MutexFree(frame_mutex)
    /\ frame_mutex' = -1
    /\ d_pc' = "store"
    /\ UNCHANGED << env, ctl_vars, codec_vars, after_stop,
                    running, container, packet_queue, latest_frame,
                    reader_started, decoder_started, r_pc, r_pkt,
                    d_pkt, d_img, m_pc, m_ret, calls, gf_pc, gf_err, gf_img, gf_cached,
                    produced, pushed, evicted, taken, first_taken, published, fresh >>

\* self._latest_frame = img, and the with block releases the mutex
DecoderStore ==
    /\ d_pc = "store"
    /\ latest_frame' = d_img
    /\ frame_mutex' = 0
    /\ published' = published \cup {d_img}
    /\ fresh' = TRUE
    /\ d_img' = 0
    /\ d_pc' = "while"
    /\ after_stop' = Work("stores")
    /\ UNCHANGED << env, ctl_vars, codec_vars,
                    running, container, packet_queue,
                    reader_started, decoder_started, r_pc, r_pkt,
                    d_pkt, m_pc, m_ret, calls, gf_pc, gf_err, gf_img, gf_cached,
                    produced, pushed, evicted, taken, first_taken >>

\* ---- SIYISTREAM.get_frame, called on caller thread c
\* the test get_frame makes first: if not self._running: raise
NotConnected_never(run) == FALSE

NotConnected(run) == ~run

\* ndarray.copy(): a new array with the content of the cached one
CopyOf(img) == img

\* if not self._running: raise Exception("Not connected to camera")
GetFrameCall(c) ==
    /\ gf_pc[c] = "idle"
    /\ IF NotConnected(running)
       THEN /\ gf_err' = [gf_err EXCEPT ![c] = "NotConnected"]
            /\ UNCHANGED gf_pc
       ELSE /\ gf_err' = [gf_err EXCEPT ![c] = "none"]
            /\ gf_pc' = [gf_pc EXCEPT ![c] = "lock"]
    /\ gf_img' = [gf_img EXCEPT ![c] = 0]
    /\ gf_cached' = [gf_cached EXCEPT ![c] = latest_frame]
    /\ UNCHANGED << env, ctl_vars, codec_vars, after_stop,
                    running, container, packet_queue, latest_frame,
                    frame_mutex, reader_started, decoder_started, r_pc, r_pkt,
                    d_pc, d_pkt, d_img, m_pc, m_ret, calls,
                    produced, pushed, evicted, taken, first_taken, published, fresh >>

\* with self._frame_mutex: (the caller enters)
GetFrameLock(c) ==
    /\ gf_pc[c] = "lock"
    /\ MutexFree(frame_mutex)
    /\ frame_mutex' = c
    /\ gf_pc' = [gf_pc EXCEPT ![c] = "read"]
    /\ UNCHANGED << env, ctl_vars, codec_vars, after_stop,
                    running, container, packet_queue, latest_frame,
                    reader_started, decoder_started, r_pc, r_pkt,
                    d_pc, d_pkt, d_img, m_pc, m_ret, calls, gf_err, gf_img, gf_cached,
                    produced, pushed, evicted, taken, first_taken, published, fresh >>

\* if self._latest_frame is None: raise Exception("No frame available yet")
\* return self._latest_frame.copy(); either way the with block releases
GetFrameRead(c) ==
    /\ gf_pc[c] = "read"
    /\ IF latest_frame = 0
       THEN /\ gf_err' = [gf_err EXCEPT ![c] = "NoFrame"]
            /\ UNCHANGED gf_img
       ELSE /\ gf_img' = [gf_img EXCEPT ![c] = CopyOf(latest_frame)]
            /\ UNCHANGED gf_err
    /\ frame_mutex' = 0
    /\ gf_pc' = [gf_pc EXCEPT ![c] = "idle"]
    /\ UNCHANGED gf_cached
    /\ UNCHANGED << env, ctl_vars, codec_vars, after_stop,
                    running, container, packet_queue, latest_frame,
                    reader_started, decoder_started, r_pc, r_pkt,
                    d_pc, d_pkt, d_img, m_pc, m_ret, calls,
                    produced, pushed, evicted, taken, first_taken, published, fresh >>

Lifecycle ==
    \/ ConnectCall \/ ConnectRun \/ ConnectStartReader \/ ConnectStartDecoder
    \/ DisconnectCall \/ DisconnectJoinReader \/ DisconnectJoinDecoder
    \/ DisconnectClose

Reader ==
    \/ ReaderWhile \/ ReaderNextPacket \/ ReaderNextStop \/ ReaderNextError
    \/ ReaderLen \/ ReaderPopleft \/ ReaderAppend

\* the reader on a stream shorter than the deque: the deque never fills, so
\* the make-room branch (ReaderPopleft) cannot be taken
ReaderShort ==
    \/ ReaderWhile \/ ReaderNextPacket \/ ReaderNextStop \/ ReaderNextError
    \/ ReaderLen \/ ReaderAppend

Decoder ==
    \/ DecoderWhile \/ DecoderEmpty \/ DecoderPop \/ DecoderDecodeImage
    \/ DecoderDecodeNothing \/ DecoderLock \/ DecoderStore

GetFrame == \E c \in Callers :
    GetFrameCall(c) \/ GetFrameLock(c) \/ GetFrameRead(c)

\* ---- the whole pipeline on a short stream: lifecycle calls, both
\* threads and the get_frame() callers
Next == Lifecycle \/ ReaderShort \/ Decoder \/ GetFrame

Spec == Init /\ [][Next]_vars

\* ---- the packet buffer under one connect() and a long stream
InitQueue == StreamInit(QueuePackets, 1, 0) /\ CtlIdle /\ CodecIdle

NextQueue ==
    \/ ConnectCall \/ ConnectRun \/ ConnectStartReader \/ ConnectStartDecoder
    \/ Reader \/ Decoder

SpecQueue == InitQueue /\ [][NextQueue]_vars

\* ---- the frame cache under one connect() and several get_frame() threads
InitCache == StreamInit(CachePackets, 1, CacheCallers) /\ CtlIdle /\ CodecIdle

NextCache ==
    \/ ConnectCall \/ ConnectRun \/ ConnectStartReader \/ ConnectStartDecoder
    \/ ReaderShort \/ Decoder \/ GetFrame

SpecCache == InitCache /\ [][NextCache]_vars
\* ---- both threads around one connect() and one disconnect()
InitStop == StreamInit(StopPackets, 2, 0) /\ CtlIdle /\ CodecIdle

NextStop == Lifecycle \/ ReaderShort \/ Decoder

SpecStop == InitStop /\ [][NextStop]_vars

\* ---- the pipeline on a transport that keeps delivering packets.  One
\* packet at a time is followed through the pipeline: it carries Watched,
\* every other packet carries Unwatched.  The counters and logs of the
\* finite streams are not kept.
Watched == 1
Unwatched == 2

\* packet = next(self._stream): the transport always has a next packet
LiveNextPacket ==
    /\ r_pc = "next"
    /\ container = "open"
    /\ \E p \in { Watched, Unwatched } :
           /\ p = Watched => \A i \in 1..Len(packet_queue) :
                                 packet_queue[i] # Watched
           /\ r_pkt' = p
    /\ r_pc' = "len"
    /\ UNCHANGED << env, ctl_vars, codec_vars, after_stop,
                    running, container, packet_queue, latest_frame,
                    frame_mutex, reader_started, decoder_started,
                    d_pc, d_pkt, d_img, m_pc, m_ret, calls,
                    gf_pc, gf_err, gf_img, gf_cached,
                    produced, pushed, evicted, taken, first_taken, published, fresh >>

\* self._packet_queue.popleft(); IndexError on an empty deque is caught by
\* the loop's except Exception and the packet in hand is dropped
LivePopleft ==
    /\ r_pc = "popleft"
    /\ IF packet_queue = << >>
       THEN /\ r_pc' = "while"
            /\ r_pkt' = 0
            /\ UNCHANGED packet_queue
       ELSE /\ packet_queue' = PopleftRest(packet_queue)
            /\ r_pc' = "append"
            /\ UNCHANGED r_pkt
    /\ UNCHANGED << env, ctl_vars, codec_vars, after_stop,
                    running, container, latest_frame,
                    frame_mutex, reader_started, decoder_started,
                    d_pc, d_pkt, d_img, m_pc, m_ret, calls,
                    gf_pc, gf_err, gf_img, gf_cached,
                    produced, pushed, evicted, taken, first_taken, published, fresh >>

\* self._packet_queue.append(packet)
LiveAppend ==
    /\ r_pc = "append"
    /\ packet_queue' = DequeAppend(packet_queue, r_pkt)
    /\ r_pkt' = 0
    /\ r_pc' = "while"
    /\ after_stop' = Work("pushes")
    /\ UNCHANGED << env, ctl_vars, codec_vars,
                    running, container, latest_frame,
                    frame_mutex, reader_started, decoder_started,
                    d_pc, d_pkt, d_img, m_pc, m_ret, calls,
                    gf_pc, gf_err, gf_img, gf_cached,
                    produced, pushed, evicted, taken, first_taken, published, fresh >>

\* packet = self._packet_queue.pop(), outside the try block
LivePop ==
    /\ d_pc = "pop"
    /\ IF packet_queue = << >>
       THEN /\ d_pc' = "dead"
            /\ UNCHANGED after_stop
            /\ UNCHANGED << packet_queue, d_pkt >>
       ELSE /\ d_pkt' = PopValue(packet_queue)
            /\ packet_queue' = PopRest(packet_queue)
            /\ d_pc' = "decode"
            /\ after_stop' = Work("takes")
    /\ UNCHANGED << env, ctl_vars, codec_vars,
                    running, container, latest_frame,
                    frame_mutex, reader_started, decoder_started, r_pc, r_pkt,
                    d_img, m_pc, m_ret, calls, gf_pc, gf_err, gf_img, gf_cached,
                    produced, pushed, evicted, taken, first_taken, published, fresh >>

LiveStore_skip ==
    /\ d_pc = "store"
    /\ frame_mutex' = 0
    /\ d_img' = 0
    /\ d_pc' = "while"
    /\ UNCHANGED << env, ctl_vars, codec_vars, after_stop,
                    running, container, packet_queue, latest_frame,
                    reader_started, decoder_started, r_pc, r_pkt,
                    d_pkt, m_pc, m_ret, calls, gf_pc, gf_err, gf_img, gf_cached,
                    produced, pushed, evicted, taken, first_taken, published, fresh >>

\* self._latest_frame = img, and the with block releases the mutex
LiveStore ==
    /\ d_pc = "store"
    /\ latest_frame' = d_img
    /\ frame_mutex' = 0
    /\ d_img' = 0
    /\ d_pc' = "while"
    /\ after_stop' = Work("stores")
    /\ UNCHANGED << env, ctl_vars, codec_vars,
                    running, container, packet_queue,
                    reader_started, decoder_started, r_pc, r_pkt,
                    d_pkt, m_pc, m_ret, calls, gf_pc, gf_err, gf_img, gf_cached,
                    produced, pushed, evicted, taken, first_taken, published, fresh >>

\* the reader while next() always returns a packet
ReaderLive ==
    \/ ReaderWhile \/ LiveNextPacket \/ ReaderLen \/ LivePopleft \/ LiveAppend

\* the decoder while every decode yields an image, up to the mutex
DecoderLive ==
    \/ DecoderWhile \/ DecoderEmpty \/ LivePop \/ DecoderDecodeImage
    \/ LiveStore

\* the steps of connect() after the call has begun
ConnectInner ==
    \/ ConnectRun \/ ConnectStartReader \/ ConnectStartDecoder

\* the steps of get_frame() after the call has begun
GetFrameInner == \E c \in Callers : GetFrameLock(c) \/ GetFrameRead(c)

\* one get_frame() caller and one connect() call; the pipeline is not
\* disconnected
InitLive == StreamInit(0, 1, 1) /\ CtlIdle /\ CodecIdle

NextLive ==
    \/ ConnectCall \/ ConnectInner
    \/ ReaderLive \/ DecoderLive \/ DecoderLock \/ GetFrame

\* every thread that can take a step eventually takes one, and a thread
\* waiting for the frame mutex gets it if it is released again and again
FairLive ==
    /\ WF_vars(ReaderLive)
    /\ WF_vars(DecoderLive)
    /\ SF_vars(DecoderLock)
    /\ WF_vars(ConnectInner)
    /\ WF_vars(GetFrameInner)

SpecLive == InitLive /\ [][NextLive]_vars /\ FairLive

\* ---- the codec on drawn inputs
StreamIdle == StreamInit(0, 0, 0)

InitCodec == StreamIdle /\ CtlIdle /\ CodecIdle

NextCodec ==
    \/ CodecBuildFixed \/ CodecBuildFocus \/ CodecBuildRotation
    \/ CodecBuildAny \/ CodecEncode \/ CodecDecode

SpecCodec == InitCodec /\ [][NextCodec]_vars

\* calcCRC16 over the CRC values
NextCrc == CodecCrc

SpecCrc == InitCodec /\ [][NextCrc]_vars

\* the attitude parse over 12-byte payloads
NextAttitude == CodecAttitude

SpecAttitude == InitCodec /\ [][NextAttitude]_vars

\* decodeMsg over short datagrams
NextShort == CodecShort

SpecShort == InitCodec /\ [][NextShort]_vars

\* decodeMsg over frames with any DATA_LEN
NextSkewed == CodecSkewed

SpecSkewed == InitCodec /\ [][NextSkewed]_vars

\* the codec with a bit error between encodeMsg and decodeMsg
NextFlip ==
    \/ CodecBuildFixed \/ CodecBuildFocus \/ CodecBuildRotation
    \/ CodecBuildAny \/ CodecEncode \/ CodecFlip \/ CodecDecodeFlipped

SpecFlip == InitCodec /\ [][NextFlip]_vars

\* the controller alone: the caller, the socket and the camera
InitCtl == StreamIdle /\ CtlIdle /\ CodecIdle

NextCtl ==
    \/ CtlCallRequest \/ CtlCallCommand \/ CtlCallRotation
    \/ CtlCommand \/ CtlSend \/ CtlRcv \/ CtlParse
    \/ CtlAfterRequest \/ CtlAfterCommand \/ CtlAfterRecording
    \/ CtlAfterRotation \/ DeviceDeliver

SpecCtl == InitCtl /\ [][NextCtl]_vars

\* ======================================================================
\* Properties of the streaming pipeline
\* ======================================================================
Range(q) == { q[i] : i \in 1..Len(q) }

\* on a stream shorter than the deque the reader never reaches popleft
ShortStreamNeverFull == r_pc # "popleft"

\* the most recently pushed packet still in the deque: packets are numbered
\* in the order the reader obtains and pushes them
Newest(q) == CHOOSE p \in Range(q) : \A r \in Range(q) : r <= p

\* C1: in every reachable state, under any interleaving of the reader and
\* the decoder, the packet buffer holds at most 5 packets.
C1_BufferAtMostFive == Len(packet_queue) <= 5

C1_Witness ==
    /\ Len(packet_queue) = 5
    /\ evicted # << >>
    /\ first_taken # 0

\* C2: every packet the decoder takes is the most recently pushed packet
\* still in the buffer at the moment of the take, and the take removes it.
C2_TakesNewest ==
    [][(d_pc = "pop" /\ d_pc' = "decode")
         => /\ d_pkt' = Newest(packet_queue)
            /\ d_pkt' \notin Range(packet_queue')]_vars

C2_Witness ==
    /\ d_pc = "decode"
    /\ Len(packet_queue) >= 2
    /\ \A r \in Range(packet_queue) : r < d_pkt

\* C3: when the reader has pushed P1..Pn (n > 5) and the decoder has taken
\* nothing yet, exactly P1..P(n-5) were evicted, in push order, and the
\* buffer holds P(n-4)..Pn; the first packet the decoder then takes is Pn;
\* no evicted packet is ever decoded.
C3_PausedDecoder ==
    /\ [](first_taken = 0 /\ pushed > 5 /\ r_pc # "append"
            => /\ packet_queue = [i \in 1..5 |-> pushed - 5 + i]
               /\ evicted = [i \in 1..(pushed - 5) |-> i])
    /\ [][first_taken = 0 /\ first_taken' # 0 /\ pushed > 5
            => first_taken' = pushed]_vars
    /\ [](\A p \in Range(evicted) : p \notin DOMAIN taken)

C3_Witness ==
    /\ first_taken = 7
    /\ pushed = 7
    /\ evicted = << 1, 2 >>
    /\ packet_queue = << 3, 4, 5, 6 >>

\* C4: no packet is decoded twice: each packet is taken by the decoder at
\* most once, and a packet that was evicted is never taken.
C4_TakenAtMostOnce ==
    /\ \A p \in DOMAIN taken : taken[p] <= 1
    /\ Range(evicted) \cap DOMAIN taken = {}

C4_Witness ==
    /\ Cardinality(DOMAIN taken) >= 3
    /\ Len(evicted) >= 1

\* C5: get_frame() fails with "Not connected", and returns no image, when
\* the pipeline is not running (never started, or stopped by disconnect()),
\* whether or not the cache still holds a frame.
C5_NotConnected ==
    [][\A c \in Callers :
         GetFrameCall(c) /\ ~running
           => /\ gf_err'[c] = "NotConnected"
              /\ gf_img'[c] = 0
              /\ gf_pc'[c] = "idle"]_vars

C5_Witness ==
    \E c \in Callers :
        /\ gf_err[c] = "NotConnected"
        /\ gf_cached[c] # 0
        /\ ~running

\* C6: while the pipeline is running, get_frame() fails with "No frame
\* available yet" if no decode has succeeded since the most recent
\* connect(), also when an earlier session decoded frames.
C6_NoFrameSinceConnect ==
    [][\A c \in Callers :
         GetFrameRead(c) /\ running /\ ~fresh
           => /\ gf_err'[c] = "NoFrame"
              /\ gf_img'[c] = 0]_vars

\* C7: every successful get_frame() returns a copy of an image the decoder
\* published before; the slot is read and written only by the thread that
\* holds the frame mutex, so a read and a write never overlap.
C7_FrameCacheExclusive ==
    /\ \A c \in Callers : gf_img[c] # 0 => gf_img[c] \in published
    /\ d_pc = "store" => frame_mutex = -1
    /\ \A c \in Callers : gf_pc[c] = "read" => frame_mutex = c

C7_Witness ==
    /\ gf_img[1] # 0
    /\ gf_pc[2] = "read"
    /\ d_pc = "lock"
\* ======================================================================
\* Properties of the codec
\* ======================================================================
\* C10: for every command id and payload whose DATA_LEN equals the payload
\* byte count, decodeMsg(encodeMsg(data_len, payload, cmd_id)) returns
\* exactly the payload, whatever the value of the CRC16.
C10_RoundTrip ==
    (/\ x_pc = "decoded"
     /\ IntOfHex(Slice(x_len, 2, 4) \o Slice(x_len, 0, 2)) * 2 = Len(x_data))
        => x_out = [exc |-> FALSE, data |-> x_data]

\* ======================================================================
\* Properties of the controller
\* ======================================================================
\* C8: in each of the ten request/reply operations, when no datagram
\* arrives within the receive timeout (rcvMsg returned None) the routine
\* yields None and the operation returns None to its caller: it does not
\* raise.
C8_TimeoutReturnsNone ==
    [][(ctl_op \in RequestOps /\ ctl_reply = None) =>
           /\ (ctl_pc = "parse" /\ ctl_pc' # "parse")
                  => (ctl_pc' = "ret" /\ ctl_val' = RetNone)
           /\ (ctl_pc # "idle" /\ ctl_pc' = "idle") => ctl_ret' = RetNone]_vars

C11_BitFlipDetected ==
    x_pc = "decodedflip" =>
        /\ x_out = [exc |-> FALSE, data |-> << >>]
        /\ \/ FromHexFails(x_msg)
           \/ WireCrc(Crc16Xmodem(BytesFromHex(SliceButLast(x_msg, 4))))
                  # SliceLast(x_msg, 4)

C11_Witness ==
    /\ x_pc = "decodedflip"
    /\ x_data # << >>
    /\ SliceLast(x_msg, 4) = SliceLast(EncodeMsg(x_len, x_data, x_cmd), 4)
    /\ Slice(x_msg, 16, 16 + Len(x_data)) # x_data

\* C12: whatever datagram rcvMsg returned, the operation goes on to return
\* a result (None included): parsing the reply never raises an exception
\* to the caller.
C12_ReplyNeverRaises ==
    [][(ctl_pc = "parse" /\ ctl_reply # None /\ ctl_pc' # "parse")
           => (ctl_pc' = "ret" /\ ~Raised(ctl_val'))]_vars

\* ======================================================================
\* Properties of the background tasks and of the lifecycle
\* ======================================================================
\* C13: while the pipeline is running the decoder task has not terminated:
\* no step of its loop, taking a packet from the buffer included, fails
\* with an error that ends the task.
C13_DecoderNeverDies == running => d_pc # "dead"

\* C14: a connect() that follows a connect() and a disconnect() on the same
\* object (it has re-opened the transport and finds the reader thread
\* started before) starts the reader task again, and goes on to start the
\* decoder task and to return True.
C14_Reconnect ==
    [][(m_pc = "c_start_r" /\ reader_started /\ m_pc' # "c_start_r")
           => /\ m_pc' = "c_start_d"
              /\ r_pc' = "while"
              /\ m_ret' # "raise"]_vars

\* C15: in disconnect() of a running pipeline the stop flag is cleared
\* first, then the reader is waited for, then the decoder, and only then
\* is the container closed; the container is never closed while the
\* pipeline is flagged running.
C15_DisconnectOrder ==
    /\ [][/\ (m_pc' = "d_join_r" /\ m_pc # "d_join_r")
                => (m_pc = "idle" /\ running /\ ~running')
          /\ (m_pc' = "d_join_d" /\ m_pc # "d_join_d") => m_pc = "d_join_r"
          /\ (m_pc' = "d_close" /\ m_pc # "d_close") => m_pc = "d_join_d"
          /\ (container' = "closed" /\ container # "closed")
                => (m_pc = "d_close" /\ ~running)]_vars
    /\ [](m_pc \in { "d_join_r", "d_join_d", "d_close" } => ~running)
    /\ [](container = "closed" => ~running)

C15_Witness ==
    /\ container = "closed" /\ m_pc = "idle" /\ m_ret = "True" /\ ~running
    /\ reader_started /\ decoder_started

\* C16: a connect() or disconnect() that returns (does not raise) returns
\* True, also when the pipeline already was in the requested state
\* (connect() while running, disconnect() while not running).
C16_ReturnsBoolean ==
    [][(calls' = calls + 1 \/ m_pc # "idle") /\ m_pc' = "idle"
           /\ m_ret' # "raise" => m_ret' = "True"]_vars

\* C17: when opening the network resource fails in connect(), the call
\* raises to its caller and the pipeline stays disconnected: the running
\* flag stays false, no background task is started, and a get_frame() that
\* follows fails with "Not connected".
C17_OpenFailure ==
    /\ [][(m_pc = "idle" /\ calls' = calls + 1 /\ m_ret' = "raise")
              => /\ ~running /\ ~running'
                 /\ m_pc' = "idle"
                 /\ UNCHANGED << reader_started, decoder_started, r_pc, d_pc >>]_vars
    /\ [][\A c \in Callers :
              (GetFrameCall(c) /\ m_pc = "idle" /\ m_ret = "raise" /\ ~running)
                  => (gf_err'[c] = "NotConnected" /\ gf_pc'[c] = "idle")]_vars

C17_Witness ==
    /\ m_pc = "idle" /\ m_ret = "raise" /\ ~running
    /\ ~reader_started /\ ~decoder_started /\ calls = 1
    /\ \E c \in Callers : gf_err[c] = "NotConnected"

\* C18: for every CRC value c in 0..65535 calcCRC16 returns four hex
\* characters, the low byte of c followed by the high byte of c.
C18_CrcLowByteFirst ==
    x_pc = "crc" =>
        x_out.data = HexByte(x_crc % 256) \o HexByte(x_crc \div 256)

\* C19: every frame a catalog constructor builds is STX 5566, CTRL 01,
\* DATA_LEN, SEQ 0000, CMD_ID, DATA and the two bytes of the CRC16 of what
\* precedes (low byte first), and DATA_LEN read as a little-endian 16-bit
\* number is the number of DATA bytes.
C19_FrameLayout ==
    (x_pc = "encoded" /\ Msg(x_len, x_data, x_cmd) \in CatalogMsgs) =>
        /\ Slice(x_msg, 0, 4) = << 5, 5, 6, 6 >>
        /\ Slice(x_msg, 4, 6) = << 0, 1 >>
        /\ IntOfHex(Slice(x_msg, 8, 10) \o Slice(x_msg, 6, 8)) * 2 = Len(x_data)
        /\ Slice(x_msg, 10, 14) = << 0, 0, 0, 0 >>
        /\ Slice(x_msg, 14, 16) = x_cmd
        /\ Slice(x_msg, 16, 16 + Len(x_data)) = x_data
        /\ SliceFrom(x_msg, 16 + Len(x_data))
              = WireCrc(Crc16Xmodem(BytesFromHex(Slice(x_msg, 0, 16 + Len(x_data)))))

\* C20: getGimbalAttitude reads a 12-byte payload as yaw, pitch, roll, yaw
\* rate, pitch rate, roll rate in this order, each from two little-endian
\* bytes taken as a signed 16-bit integer counting tenths of a unit
\* (0x0064 is 10.0, a value with the top bit set is negative).
Signed16(lo, hi) ==
    IF lo + 256 * hi >= 32768 THEN lo + 256 * hi - 65536 ELSE lo + 256 * hi

C20_AttitudeAxes ==
    x_pc = "attitude" =>
        /\ ~x_out.exc
        /\ x_out.data =
               [i \in 1..6 |-> Signed16(BytesFromHex(x_data)[2 * i - 1],
                                        BytesFromHex(x_data)[2 * i])]

C20_Witness ==
    /\ x_pc = "attitude"
    /\ x_out.data[1] = 100 /\ x_out.data[2] = -15 /\ x_out.data[3] = 32767
    /\ x_out.data[4] = -32768 /\ x_out.data[5] = -15 /\ x_out.data[6] = 100

\* C21: for every input shorter than 10 bytes, those whose last two bytes
\* are the correct CRC of the bytes before them included, decodeMsg
\* returns the empty payload and does not raise.
C21_ShortInputEmpty ==
    x_pc = "short" => x_out = [exc |-> FALSE, data |-> << >>]

\* C22: for a CRC-valid frame whose DATA_LEN differs from the number of
\* bytes between the header and the CRC, decodeMsg returns the empty
\* payload: never bytes of the CRC field, never fewer bytes than declared.
C22_LengthMismatchEmpty ==
    (/\ x_pc = "skewed"
     /\ IntOfHex(Slice(x_len, 2, 4) \o Slice(x_len, 0, 2)) * 2 # Len(x_data))
        => x_out = [exc |-> FALSE, data |-> << >>]

\* C23: no request/response correlation.  Once a receive has timed out,
\* a datagram that arrives afterwards is what the next receive returns, and
\* it is decoded and parsed as the response of the operation that receives
\* it, whatever command id it carries.
C23_LateReplyParsed ==
    [][/\ (timed_out /\ ctl_pc = "rcv" /\ inbox # << >> /\ ctl_pc' = "parse")
           => (ctl_reply' = Head(inbox) /\ inbox' = Tail(inbox))
       /\ (timed_out /\ ctl_pc = "parse" /\ ctl_reply # None /\ ctl_pc' = "ret")
           => (/\ ~DecodeMsg(ctl_reply).exc
               /\ ctl_val' = IF Len(DecodeMsg(ctl_reply).data) = 0
                             THEN RetNone
                             ELSE ParseReply(ctl_req, DecodeMsg(ctl_reply).data))]_vars

\* the second operation, getFirmwareVersion (command id 0x01), has parsed
\* the attitude reply (command id 0x0d) that an earlier request timed out on
C23_Witness ==
    /\ timed_out /\ ctl_calls = 2 /\ ctl_pc = "ret"
    /\ ctl_req = "getFirmwareVersion"
    /\ ctl_reply = DeviceFrame(13, AttitudeData)
    /\ ctl_val = Ret("hex", Slice(AttitudeData, 8, 16))

\* C24: every packet the reader obtains while the pipeline is running is
\* appended to the packet buffer: whenever the reader is between two
\* iterations, it has pushed as many packets as it has obtained.
C24_EveryPacketPushed ==
    (running /\ r_pc \in { "while", "next", "done" }) => pushed = produced

\* C25: the reader removes the oldest packet only in a state where the
\* buffer holds exactly 5 packets: no step evicts a packet from a buffer
\* that holds fewer than 5.
C25_EvictOnlyWhenFull ==
    [][evicted' # evicted => Len(packet_queue) = 5]_vars

\* C26: the frame cache never goes back in time: no step overwrites the
\* cached frame with a frame decoded from a packet that the reader pushed
\* before the packet of the cached frame (packets are numbered in
\* production order and 0 is the empty cache).
C26_CacheMonotone ==
    [][latest_frame' >= latest_frame]_vars

\* C27: while the pipeline keeps running and both tasks are scheduled
\* fairly, a packet in the buffer is eventually taken by the decoder or
\* evicted by the reader: it does not stay in the buffer forever.
C27_NoPacketStaysForever ==
    (running /\ \E i \in 1..Len(packet_queue) : packet_queue[i] = Watched)
        ~> (~running \/ \A i \in 1..Len(packet_queue) : packet_queue[i] # Watched)

\* C29: if the transport keeps delivering packets, every decode yields an
\* image and the tasks are scheduled fairly, then from some point on no
\* get_frame() call fails with "No frame available yet": every call that
\* gets past the running test returns a copy of the cached frame.
C29_FramesEventually ==
    <>[][\A c \in Callers :
             (gf_pc[c] = "read" /\ gf_pc'[c] = "idle")
                 => (gf_err'[c] = "none" /\ gf_img'[c] = CopyOf(latest_frame)
                     /\ gf_img'[c] # 0)]_vars

\* a get_frame() call made before the first frame was stored has returned
\* the frame decoded since
C29_Witness ==
    /\ running /\ d_pc # "dead"
    /\ \E c \in Callers : /\ gf_pc[c] = "idle" /\ gf_err[c] = "none"
                          /\ gf_cached[c] = 0 /\ gf_img[c] # 0

\* C28: after disconnect() has set the stop flag, the reader pushes at most
\* one more packet, and the decoder takes at most one more packet and
\* writes the frame cache at most once more.
C28_OneMoreUnit ==
    /\ after_stop.pushes <= 1
    /\ after_stop.takes <= 1
    /\ after_stop.stores <= 1

\* both threads have ended after one more push, take and store each, with
\* packets left in the stream and in the buffer
C28_Witness ==
    /\ ~running /\ r_pc = "done" /\ d_pc = "done"
    /\ after_stop = [pushes |-> 1, takes |-> 1, stores |-> 1]
    /\ produced < stream_len
    /\ packet_queue # << >>

\* C30: connect() called on a pipeline that is already running changes
\* nothing: it returns None, opens no transport, starts no task and leaves
\* the running flag, the packet buffer and the frame cache as they are.
\* (A lifecycle call made while running is a connect() unless it enters
\* disconnect's join.)
C30_ConnectWhileRunning ==
    [][(running /\ calls' # calls /\ m_pc' # "d_join_r")
          => /\ m_ret' = "None" /\ m_pc' = "idle"
             /\ UNCHANGED << running, container, packet_queue, latest_frame,
                             frame_mutex, reader_started, decoder_started,
                             r_pc, r_pkt, d_pc, d_pkt, d_img, fresh >>]_vars

\* connect() has returned None on a running pipeline whose threads are alive
C30_Witness ==
    /\ running /\ m_pc = "idle" /\ m_ret = "None" /\ calls >= 2
    /\ container = "open"
    /\ reader_started /\ decoder_started
    /\ r_pc \notin { "idle", "done" }
    /\ latest_frame # 0

\* C31: when setGimbalRotation returns, the last speed command it sent, if
\* it sent any, is (0, 0), so it never returns on a timeout or a failed
\* acknowledgement with the gimbal commanded to a non-zero speed; and a
\* call that returns at once on a target out of range sends no frame.
C31_RotationEndsStopped ==
    [][/\ (ctl_op = "setGimbalRotation" /\ ctl_pc # "idle" /\ ctl_pc' = "idle")
           => last_speed' \in { << >>, << 0, 0 >> }
       /\ (ctl_op' = "setGimbalRotation" /\ ctl_calls' # ctl_calls
              /\ ctl_pc' = "idle")
           => (unanswered' = unanswered /\ last_speed' = << >>)]_vars
====
